---- MODULE Spec2Model ----
(***************************************************************************)
(* A model of resources/bridge.js, the script that connects the PDF.js     *)
(* viewer frame to the Python host over QWebChannel.                        *)
(*                                                                         *)
(* The script is single threaded: every handler (a DOM event listener, a   *)
(* timer callback, a function the host calls) runs to completion, so each  *)
(* handler is one action.  What the browser, the nested viewer and the     *)
(* host do (inject the transport, boot the viewer, render pages, fire      *)
(* events, call loadAnnotations) is the environment: those actions choose  *)
(* their inputs with \E.                                                    *)
(*                                                                         *)
(* Text is a sequence of one-character strings, so that trim() and         *)
(* length are computed.  Coordinates are integers.                         *)
(***************************************************************************)
EXTENDS Integers, Sequences, FiniteSets, TLC

\* ------------------------------------------------------------- bounds

\* Overlay elements a text layer can hold before rendering actions stop.
MaxOverlays == 3
\* Pending toast hide timers before handlers that show a toast stop.
MaxToastTimers == 2
\* Pending selection settle timers (mouseup events not yet handled).
MaxPending == 1
\* onViewerReady calls that are counted before document-loaded events stop.
MaxReady == 2

\* ------------------------------------------------------ program constants

\* createHighlight's temporary annotation id.
TempId == -1
\* showContextMenu's margin when it repositions the menu.
MenuMargin == 10

HighlightColor == "#FFFF00"

NoFileToast == "Error: No PDF file specified"
FrameErrorToast == "Error: Failed to load PDF viewer"
AccessToast == "Error: Failed to access PDF viewer (security restriction)"
DocErrorToast == "Error loading PDF: "
SavedToast == "Highlight saved!"

\* ------------------------------------------------------------- inputs

\* params.get("file"): null when the parameter is missing.
NullParam == "<null>"
FileParams == {NullParam, "", "/home/u/paper.pdf"}

\* Pages of the document whose div the viewer creates (numbered from 1);
\* OtherPage is a page number that has no div.
Pages == {1}
OtherPage == 2

\* DOMRects a selection range reports (getClientRects), in frame coordinates.
DomRectA == [left |-> 14, top |-> 26, width |-> 30, height |-> 5]
DomRectB == [left |-> 12, top |-> 31, width |-> 17, height |-> 4]
RectLists == {<< >>, <<DomRectA>>, <<DomRectA, DomRectB>>}

\* handleTextSelection's copy of a DOMRect into SelectionState.
ToRect(r) == [x |-> r.left, y |-> r.top, w |-> r.width, h |-> r.height]
RectA == ToRect(DomRectA)
RectB == ToRect(DomRectB)

\* Raw selection strings (selection.toString()), before trim().
RawTexts ==
    { << >>, <<" ", "a", " ">>, <<" ", "a", "b">>, <<"b", " ", "a", " ">> }


\* A node of the anchor's ancestor chain: whether it has a classList (a text
\* node has none), whether the list contains "page", and what
\* getAttribute("data-page-number") returns (NullAttr: no such attribute).
NullAttr == <<"<null>">>
TextNode == [classList |-> FALSE, page |-> FALSE, attr |-> NullAttr]
PlainDiv == [classList |-> TRUE, page |-> FALSE, attr |-> NullAttr]
PageDiv(a) == [classList |-> TRUE, page |-> TRUE, attr |-> a]

Digit == <<"1", "2", "3", "4", "5", "6", "7", "8", "9">>

\* The chain from the anchor node up to, not including, the document.
Chains ==
    { <<TextNode, PlainDiv, PlainDiv>> }
    \cup { <<TextNode, PlainDiv, PlainDiv, PageDiv(<<Digit[p]>>), PlainDiv>> : p \in Pages }

\* Text the engine can report for a selection that has no range: toString()
\* reads the frame's visible selection, rangeCount the ranges that can be
\* handed to the document (none for a selection inside a shadow tree).
RangelessTexts == { << >>, <<"b", " ", "a", " ">> }

\* Ancestor chains for getPageFromSelection on its own: every chain of at
\* most MaxDepth nodes, with page markers whose attribute is a page number,
\* missing, not numeric, or a number followed by other text.
MaxDepth == 3
MarkerAttrs == { <<"1", "2">>, NullAttr, <<"x">>, <<"2", "x">> }
NodeKinds == { TextNode, PlainDiv } \cup { PageDiv(a) : a \in MarkerAttrs }
AllChains == UNION { [1..n -> NodeKinds] : n \in 0..MaxDepth }
ChainSelections ==
    { [isNull |-> TRUE, text |-> << >>, rangeCount |-> 0, rects |-> << >>, chain |-> << >>] }
    \cup [isNull : {FALSE}, text : {<<"a", "b">>}, rangeCount : {0}, rects : {<< >>},
          chain : {<< >>, <<TextNode, PageDiv(<<"1", "2">>)>>}]
    \cup [isNull : {FALSE}, text : {<<"a", "b">>}, rangeCount : {1}, rects : {<< >>},
          chain : AllChains]

\* What iframeWin.getSelection() returns when the settle timer fires.  A
\* selection without a range has no rects and no anchor node.
Selections ==
    { [isNull |-> TRUE, text |-> << >>, rangeCount |-> 0, rects |-> << >>, chain |-> << >>] }
    \cup [isNull : {FALSE}, text : RangelessTexts, rangeCount : {0}, rects : {<< >>},
          chain : {<< >>}]
    \cup [isNull : {FALSE}, text : RawTexts, rangeCount : {1}, rects : RectLists, chain : Chains]

\* Positions, window sizes and menu sizes for showContextMenu on its own.
MaxStep == 8
Coords == { 5 * k : k \in 0..MaxStep }
Viewports == { [w |-> 40, h |-> 30], [w |-> 25, h |-> 35] }
MenuSizes == { [w |-> 10, h |-> 10], [w |-> 20, h |-> 25], [w |-> 30, h |-> 30] }

\* mouseup events: the pointer position in frame coordinates.
MouseEvents == { [clientX |-> 10, clientY |-> 70] }

\* iframe.getBoundingClientRect() in the outer page.
IframeRect == [left |-> 3, top |-> 2]

\* The outer window (innerWidth, innerHeight) and the menu's rendered size.
SessionViewport == [w |-> 100, h |-> 80]
SessionMenuSize == [w |-> 20, h |-> 30]

\* Actions of the menu's buttons: highlight is handled locally, the others
\* are forwarded to the host.
MenuActions == {"highlight", "explain", "translate"}

\* Annotations the host holds in its database.
AnnA ==
    [id |-> 7, page |-> 1, content |-> <<"a", "b">>, rects |-> <<RectA, RectB>>,
     color |-> "#FF0000", comment |-> << >>]
AnnB ==
    [id |-> 8, page |-> OtherPage, content |-> <<"b">>, rects |-> <<RectB>>,
     color |-> "#00FF00", comment |-> <<"c">>]
AnnC ==
    [id |-> 9, page |-> 1, content |-> <<"c", "c">>, rects |-> <<RectB>>,
     color |-> "#0000FF", comment |-> <<"n">>]
AnnLists == { << >>, <<AnnC>>, <<AnnB, AnnA>> }

\* textLayer.getBoundingClientRect() and the layer's own scroll offsets.
LayerGeoms ==
    { [left |-> 10, top |-> 20, scrollLeft |-> 0, scrollTop |-> 0],
      [left |-> 10, top |-> 0 - 35, scrollLeft |-> 2, scrollTop |-> 3] }

\* -------------------------------------------------------------- state

VARIABLES
    channelApi,      \* typeof QWebChannel !== "undefined"
    transport,       \* qt.webChannelTransport has been injected
    fileParam,       \* the page's file query parameter
    frameAccess,     \* the frame's document is readable (same origin)
    viewport,        \* window.innerWidth / innerHeight
    menuSize,        \* the context menu's rendered width / height
    pyBridge,        \* the pyBridge global is set
    initPending,     \* initBridge is scheduled (DOMContentLoaded or its timer)
    channelPending,  \* the QWebChannel callback is outstanding
    frameState,      \* the viewer frame: "unset", "loading", "loaded", "failed"
    viewerState,     \* PDFViewerApplication: "none", "app", "ready" (has eventBus)
    viewerApp,       \* the viewerApp global holds the application object
    pollPending,     \* setupIframeListeners' retry timer is scheduled
    listeners,       \* the frame and event bus listeners are installed
    selectedText, selectionRects, selectionPage,
    menuVisible, menuLeft, menuTop,
    settle,          \* mouseup events whose settle timer is pending
    annotations,     \* the annotations global
    pageState,       \* per page: "absent", "div" (no text layer), "text"
    layer,           \* per page: the text layer's geometry
    overlays,        \* per page: the text layer's pm-highlight children
    toastVisible, toastText, toastTimers,
    calls,           \* host methods invoked by the last step, in order
    added,           \* overlay elements appended by the last step, in order
    readyCount,      \* onViewerReady calls so far
    last             \* the handler the last step ran, with its input

envVars == <<channelApi, transport, fileParam, frameAccess, viewport, menuSize>>
bootVars == <<pyBridge, initPending, channelPending, frameState, viewerState,
              viewerApp, pollPending, listeners>>
selVars == <<selectedText, selectionRects, selectionPage>>
menuVars == <<menuVisible, menuLeft, menuTop>>
domVars == <<pageState, layer, overlays>>
toastVars == <<toastVisible, toastText, toastTimers>>
auxVars == <<calls, added, readyCount, last>>
vars == <<envVars, bootVars, selVars, menuVars, settle, annotations, domVars,
          toastVars, auxVars>>

\* ----------------------------------------------------- pure functions

IsSpace(c) == c = " "

\* String.prototype.trim(): leading and trailing white space removed.
RECURSIVE TrimLeft(_)
TrimLeft(s) ==
    IF s # << >> /\ IsSpace(Head(s)) THEN TrimLeft(Tail(s)) ELSE s

RECURSIVE TrimRight(_)
TrimRight(s) ==
    IF s # << >> /\ IsSpace(s[Len(s)]) THEN TrimRight(SubSeq(s, 1, Len(s) - 1)) ELSE s

Trim(s) == TrimRight(TrimLeft(s))

DigitValue(c) == CHOOSE d \in 1..9 : Digit[d] = c
IsDigit(c) == \E d \in 1..9 : Digit[d] = c

\* parseInt(a, 10): the value of the leading digits; NaN when there are none
\* (also for null, which is parsed as the text "null").
NaN == [nan |-> TRUE, val |-> 0]
RECURSIVE ParseDigits(_, _)
ParseDigits(a, acc) ==
    IF a # << >> /\ IsDigit(Head(a))
    THEN ParseDigits(Tail(a), 10 * acc + DigitValue(Head(a)))
    ELSE acc
ParseInt(a) ==
    IF a # << >> /\ IsDigit(Head(a))
    THEN [nan |-> FALSE, val |-> ParseDigits(a, 0)]
    ELSE NaN

\* A walk that goes on to the outer ancestors when a marker's page number
\* cannot be parsed.
RECURSIVE WalkChain_PastBadMarker(_)
WalkChain_PastBadMarker(chain) ==
    IF chain = << >> THEN 0
    ELSE IF Head(chain).classList /\ Head(chain).page /\ ~ParseInt(Head(chain).attr).nan
         THEN ParseInt(Head(chain).attr).val
         ELSE WalkChain_PastBadMarker(Tail(chain))

\* getPageFromSelection's walk over the ancestor chain.
RECURSIVE WalkChain(_)
WalkChain(chain) ==
    IF chain = << >> THEN 0
    ELSE IF Head(chain).classList /\ Head(chain).page
         THEN LET pageNum == ParseInt(Head(chain).attr)
              IN  IF pageNum.nan THEN 0 ELSE pageNum.val
         ELSE WalkChain(Tail(chain))

GetPageFromSelection(sel) ==
    IF sel.isNull \/ sel.rangeCount = 0 THEN 0 ELSE WalkChain(sel.chain)

\* showContextMenu's clamp of one coordinate: pos is the requested position,
\* size the menu's extent and inner the window's.
ClampCoord(pos, size, inner) ==
    IF pos + size > inner THEN inner - size - MenuMargin ELSE pos

\* ann.comment || ann.content || ""
Title(ann) == IF ann.comment # << >> THEN ann.comment ELSE ann.content

\* An overlay element positioned without the text layer's scroll offsets.
HighlightElement_NoScroll(ann, rect, g) ==
    [id |-> ann.id,
     left |-> rect.x - g.left,
     top |-> rect.y - g.top,
     width |-> rect.w,
     height |-> rect.h,
     background |-> ann.color,
     title |-> Title(ann),
     content |-> ann.content,
     comment |-> ann.comment]

\* The overlay element renderHighlight creates for one rect of ann.
HighlightElement(ann, rect, g) ==
    [id |-> ann.id,
     left |-> rect.x - g.left + g.scrollLeft,
     top |-> rect.y - g.top + g.scrollTop,
     width |-> rect.w,
     height |-> rect.h,
     background |-> ann.color,
     title |-> Title(ann),
     content |-> ann.content,
     comment |-> ann.comment]

\* querySelector finds the page div and its text layer.
HasTextLayer(pst, page) == page \in Pages /\ pst[page] = "text"

\* What renderHighlight(ann) appends, in order, each element with the page of
\* the text layer it went to (nothing when the frame's document cannot be
\* read, the page div or the text layer is missing).
RenderedElements(ann, pst) ==
    IF frameAccess /\ HasTextLayer(pst, ann.page)
    THEN [i \in 1..Len(ann.rects) |->
            [page |-> ann.page, el |-> HighlightElement(ann, ann.rects[i], layer[ann.page])]]
    ELSE << >>

\* A renderHighlight that empties the text layer's overlays before it adds
\* the new ones.
RenderHighlight_ReplacesLayer(ann, ov) ==
    IF frameAccess /\ HasTextLayer(pageState, ann.page)
    THEN [ov EXCEPT ![ann.page] =
            [i \in 1..Len(ann.rects) |-> HighlightElement(ann, ann.rects[i], layer[ann.page])]]
    ELSE ov

\* A renderHighlight that stops after the first rect of an annotation.
RenderHighlight_FirstRectOnly(ann, ov) ==
    IF frameAccess /\ HasTextLayer(pageState, ann.page) /\ ann.rects # << >>
    THEN [ov EXCEPT ![ann.page] =
            Append(@, HighlightElement(ann, ann.rects[1], layer[ann.page]))]
    ELSE ov

\* The overlays after renderHighlight(ann) on the overlays ov.
RenderHighlight(ann, ov) ==
    IF frameAccess /\ HasTextLayer(pageState, ann.page)
    THEN [ov EXCEPT ![ann.page] =
            @ \o [i \in 1..Len(ann.rects) |-> HighlightElement(ann, ann.rects[i], layer[ann.page])]]
    ELSE ov

\* loadAnnotations' loop: renderHighlight for each annotation in turn.
RECURSIVE RenderAll(_, _)
RenderAll(annList, ov) ==
    IF annList = << >> THEN ov
    ELSE RenderAll(Tail(annList), RenderHighlight(Head(annList), ov))

RECURSIVE RenderedAll(_)
RenderedAll(annList) ==
    IF annList = << >> THEN << >>
    ELSE RenderedElements(Head(annList), pageState) \o RenderedAll(Tail(annList))

\* ------------------------------------------------------- initial state

NoOverlays == [p \in Pages |-> << >>]
InitialGeom == [left |-> 10, top |-> 20, scrollLeft |-> 0, scrollTop |-> 0]

InitProgram ==
    /\ pyBridge = FALSE
    /\ initPending = TRUE
    /\ channelPending = FALSE
    /\ frameState = "unset"
    /\ viewerState = "none"
    /\ viewerApp = FALSE
    /\ pollPending = FALSE
    /\ listeners = FALSE
    /\ selectedText = << >>
    /\ selectionRects = << >>
    /\ selectionPage = 0
    /\ menuVisible = FALSE
    /\ menuLeft = 0
    /\ menuTop = 0
    /\ settle = << >>
    /\ annotations = << >>
    /\ pageState = [p \in Pages |-> "absent"]
    /\ layer = [p \in Pages |-> InitialGeom]
    /\ overlays = NoOverlays
    /\ toastVisible = FALSE
    /\ toastText = << >>
    /\ toastTimers = 0
    /\ calls = << >>
    /\ added = << >>
    /\ readyCount = 0
    /\ last = [op |-> "load"]

Init ==
    /\ channelApi \in BOOLEAN
    /\ transport \in BOOLEAN
    /\ channelApi \/ ~transport
    /\ fileParam \in FileParams
    /\ frameAccess \in BOOLEAN
    /\ viewport = SessionViewport
    /\ menuSize = SessionMenuSize
    /\ InitProgram

\* ---------------------------------------------------- shared effects

\* What a step leaves for observation: the host methods it invoked, the
\* overlay elements it appended and the handler that ran.
Observe(c, a, l) ==
    /\ calls' = c
    /\ added' = a
    /\ last' = l

HostCall(m, args) == [m |-> m, args |-> args]

\* A call site that is not guarded.
IfBridge_Unguarded(bridge, m, args) == <<HostCall(m, args)>>

\* A call site guarded by "if (pyBridge)".
IfBridge(bridge, m, args) == IF bridge THEN <<HostCall(m, args)>> ELSE << >>

\* showToast(message, duration): the text is replaced, the toast shown and
\* one hide timer scheduled.
ShowToast(message) ==
    /\ toastTimers < MaxToastTimers
    /\ toastText' = message
    /\ toastVisible' = TRUE
    /\ toastTimers' = toastTimers + 1

\* A hide timer that leaves the toast up while a later toast's timer is
\* still pending.
ToastTimer_LatestOnly ==
    /\ toastTimers > 0
    /\ toastTimers' = toastTimers - 1
    /\ toastVisible' = (toastVisible /\ toastTimers > 1)
    /\ UNCHANGED toastText
    /\ Observe(<< >>, << >>, [op |-> "toastTimer"])
    /\ UNCHANGED <<envVars, bootVars, selVars, menuVars, settle, annotations,
                   domVars, readyCount>>

\* The hide timer of an earlier showToast fires.
ToastTimer ==
    /\ toastTimers > 0
    /\ toastTimers' = toastTimers - 1
    /\ toastVisible' = FALSE
    /\ UNCHANGED toastText
    /\ Observe(<< >>, << >>, [op |-> "toastTimer"])
    /\ UNCHANGED <<envVars, bootVars, selVars, menuVars, settle, annotations,
                   domVars, readyCount>>

\* An initViewer() that loads the frame without testing the file parameter.
InitViewer_NoFileCheck ==
    frameState' = "loading" /\ UNCHANGED toastVars

\* initViewer(): without a file parameter only a toast; otherwise the frame's
\* src is set and its onload / onerror handlers registered.
InitViewer ==
    IF fileParam = NullParam \/ fileParam = ""
    THEN ShowToast(<<NoFileToast>>) /\ UNCHANGED frameState
    ELSE frameState' = "loading" /\ UNCHANGED toastVars

\* A retry test that looks for the application object only.
ViewerNotReady_AppOnly(vs) == vs = "none"

\* The retry test of setupIframeListeners: !viewerApp || !viewerApp.eventBus.
ViewerNotReady(vs) == vs # "ready"

\* setupIframeListeners(iframe).
SetupIframeListeners ==
    IF ~frameAccess
    THEN /\ ShowToast(<<AccessToast>>)
         /\ pollPending' = FALSE
         /\ UNCHANGED <<viewerApp, listeners>>
    ELSE /\ viewerApp' = (viewerState # "none")
         /\ pollPending' = ViewerNotReady(viewerState)
         /\ listeners' = (listeners \/ ~ViewerNotReady(viewerState))
         /\ UNCHANGED toastVars

\* ------------------------------------------------------ channel, loader

\* initBridge() without the channel API: standalone mode.
InitBridgeStandalone ==
    /\ initPending /\ ~channelApi
    /\ initPending' = FALSE
    /\ InitViewer
    /\ Observe(<< >>, << >>, [op |-> "initBridge", mode |-> "standalone"])
    /\ UNCHANGED <<envVars, pyBridge, channelPending, viewerState, viewerApp,
                   pollPending, listeners, selVars, menuVars, settle,
                   annotations, domVars, readyCount>>

\* An initBridge() that stops retrying when the transport is missing.
InitBridgeWait_GivesUp ==
    /\ initPending /\ channelApi /\ ~transport
    /\ initPending' = FALSE
    /\ Observe(<< >>, << >>, [op |-> "initBridge", mode |-> "wait"])
    /\ UNCHANGED <<envVars, pyBridge, channelPending, frameState, viewerState,
                   viewerApp, pollPending, listeners, selVars, menuVars, settle,
                   annotations, domVars, toastVars, readyCount>>

\* initBridge() before the transport is injected: retry in 50ms.
InitBridgeWait ==
    /\ initPending /\ channelApi /\ ~transport
    /\ initPending' = TRUE
    /\ Observe(<< >>, << >>, [op |-> "initBridge", mode |-> "wait"])
    /\ UNCHANGED <<envVars, pyBridge, channelPending, frameState, viewerState,
                   viewerApp, pollPending, listeners, selVars, menuVars, settle,
                   annotations, domVars, toastVars, readyCount>>

\* initBridge() with the transport: the channel is opened.
InitBridgeConnect ==
    /\ initPending /\ channelApi /\ transport
    /\ initPending' = FALSE
    /\ channelPending' = TRUE
    /\ Observe(<< >>, << >>, [op |-> "initBridge", mode |-> "connect"])
    /\ UNCHANGED <<envVars, pyBridge, frameState, viewerState, viewerApp,
                   pollPending, listeners, selVars, menuVars, settle,
                   annotations, domVars, toastVars, readyCount>>

\* Qt injects qt.webChannelTransport.
TransportInjected ==
    /\ channelApi /\ ~transport
    /\ transport' = TRUE
    /\ Observe(<< >>, << >>, [op |-> "transportInjected"])
    /\ UNCHANGED <<channelApi, fileParam, frameAccess, viewport, menuSize,
                   bootVars, selVars, menuVars, settle, annotations, domVars,
                   toastVars, readyCount>>

\* The QWebChannel callback.
ChannelCallback ==
    /\ channelPending
    /\ channelPending' = FALSE
    /\ pyBridge' = TRUE
    /\ InitViewer
    /\ Observe(<< >>, << >>, [op |-> "channelCallback"])
    /\ UNCHANGED <<envVars, initPending, viewerState, viewerApp, pollPending,
                   listeners, selVars, menuVars, settle, annotations, domVars,
                   readyCount>>

\* iframe.onload.
FrameLoad ==
    /\ frameState = "loading"
    /\ frameState' = "loaded"
    /\ SetupIframeListeners
    /\ Observe(<< >>, << >>, [op |-> "frameLoad"])
    /\ UNCHANGED <<envVars, pyBridge, initPending, channelPending, viewerState,
                   selVars, menuVars, settle, annotations, domVars, readyCount>>

\* iframe.onerror.
FrameError ==
    /\ frameState = "loading"
    /\ frameState' = "failed"
    /\ ShowToast(<<FrameErrorToast>>)
    /\ Observe(<< >>, << >>, [op |-> "frameError"])
    /\ UNCHANGED <<envVars, pyBridge, initPending, channelPending, viewerState,
                   viewerApp, pollPending, listeners, selVars, menuVars, settle,
                   annotations, domVars, readyCount>>

\* The nested viewer boots inside the frame: first the application object,
\* then its event bus.
ViewerBoot ==
    /\ frameState \in {"loading", "loaded"}
    /\ viewerState # "ready"
    /\ viewerState' = IF viewerState = "none" THEN "app" ELSE "ready"
    /\ Observe(<< >>, << >>, [op |-> "viewerBoot"])
    /\ UNCHANGED <<envVars, pyBridge, initPending, channelPending, frameState,
                   viewerApp, pollPending, listeners, selVars, menuVars, settle,
                   annotations, domVars, toastVars, readyCount>>

\* The 100ms retry timer of setupIframeListeners.
PollTimer ==
    /\ pollPending
    /\ SetupIframeListeners
    /\ Observe(<< >>, << >>, [op |-> "pollTimer"])
    /\ UNCHANGED <<envVars, pyBridge, initPending, channelPending, frameState,
                   viewerState, selVars, menuVars, settle, annotations, domVars,
                   readyCount>>

\* ------------------------------------------------------- viewer events

\* eventBus "pagechanging".
PageChanging(n) ==
    /\ listeners
    /\ Observe(IfBridge(pyBridge, "onPageChanged", <<n>>), << >>,
               [op |-> "pagechanging", page |-> n])
    /\ UNCHANGED <<envVars, bootVars, selVars, menuVars, settle, annotations,
                   domVars, toastVars, readyCount>>

\* eventBus "documentloaded".
DocumentLoaded ==
    /\ listeners
    /\ readyCount < MaxReady
    /\ readyCount' = IF pyBridge THEN readyCount + 1 ELSE readyCount
    /\ Observe(IfBridge(pyBridge, "onViewerReady", << >>), << >>,
               [op |-> "documentloaded"])
    /\ UNCHANGED <<envVars, bootVars, selVars, menuVars, settle, annotations,
                   domVars, toastVars>>

\* evt.message || "Unknown error"
ErrorMessage(message) == IF message = "" THEN "Unknown error" ELSE message

\* eventBus "documenterror".
DocumentError(message) ==
    /\ listeners
    /\ ShowToast(<<DocErrorToast, ErrorMessage(message)>>)
    /\ Observe(<< >>, << >>, [op |-> "documenterror", message |-> message])
    /\ UNCHANGED <<envVars, bootVars, selVars, menuVars, settle, annotations,
                   domVars, readyCount>>

\* ------------------------------------------------- selection and menu

\* showContextMenu(x, y).
ShowContextMenu(x, y) ==
    /\ menuVisible' = TRUE
    /\ menuLeft' = ClampCoord(x, menuSize.w, viewport.w)
    /\ menuTop' = ClampCoord(y, menuSize.h, viewport.h)

\* A hideContextMenu that leaves the menu as it is.
HideContextMenu_Stays ==
    UNCHANGED <<menuVisible, menuLeft, menuTop>>

\* hideContextMenu().
HideContextMenu ==
    /\ menuVisible' = FALSE
    /\ UNCHANGED <<menuLeft, menuTop>>

\* selection.toString() as the user's selection reads, "" without a selection.
RawText(sel) == IF sel.isNull THEN << >> ELSE sel.text

\* The selected text taken without trim().
SelectionText_NoTrim(sel) == IF sel.isNull THEN << >> ELSE sel.text

\* selection ? selection.toString().trim() : ""
SelectionText(sel) == IF sel.isNull THEN << >> ELSE Trim(sel.text)

\* The minimum length test of handleTextSelection: text.length < 2.
TooShort(text) == Len(text) < 2

\* The rects handleTextSelection stores: those of the first range, or the
\* ones already held when the selection has no range.
CapturedRects(sel, held) ==
    IF sel.rangeCount > 0
    THEN [i \in 1..Len(sel.rects) |-> ToRect(sel.rects[i])]
    ELSE held

\* handleTextSelection(iframeWin, iframeDoc, mouseEvent) with the selection
\* that getSelection() returns.
HandleTextSelection(sel, e) ==
    LET text == SelectionText(sel) IN
    IF TooShort(text)
    THEN /\ HideContextMenu
         /\ selectedText' = << >>
         /\ UNCHANGED <<selectionRects, selectionPage>>
         /\ Observe(<< >>, << >>, [op |-> "handleTextSelection", raw |-> RawText(sel)])
    ELSE /\ selectedText' = text
         /\ selectionRects' = CapturedRects(sel, selectionRects)
         /\ selectionPage' = GetPageFromSelection(sel)
         /\ ShowContextMenu(e.clientX + IframeRect.left, e.clientY + IframeRect.top)
         /\ Observe(IfBridge(pyBridge, "onTextSelected", <<text>>), << >>,
                    [op |-> "handleTextSelection", raw |-> RawText(sel),
                     rects |-> sel.rects])

\* mouseup inside the frame: handleTextSelection is scheduled in 50ms.
MouseUp(e) ==
    /\ listeners
    /\ Len(settle) < MaxPending
    /\ settle' = Append(settle, e)
    /\ Observe(<< >>, << >>, [op |-> "mouseup"])
    /\ UNCHANGED <<envVars, bootVars, selVars, menuVars, annotations, domVars,
                   toastVars, readyCount>>

\* The settle timer of the oldest mouseup fires.
SettleTimer(sel) ==
    /\ settle # << >>
    /\ settle' = Tail(settle)
    /\ HandleTextSelection(sel, Head(settle))
    /\ UNCHANGED <<envVars, bootVars, annotations, domVars, toastVars, readyCount>>

\* mousedown inside the frame.
MouseDownFrame ==
    /\ listeners
    /\ HideContextMenu
    /\ Observe(<< >>, << >>, [op |-> "mousedown", target |-> "frame"])
    /\ UNCHANGED <<envVars, bootVars, selVars, settle, annotations, domVars,
                   toastVars, readyCount>>

\* mousedown on the outer document (not on the menu, which stops propagation).
MouseDownOuter ==
    /\ HideContextMenu
    /\ Observe(<< >>, << >>, [op |-> "mousedown", target |-> "document"])
    /\ UNCHANGED <<envVars, bootVars, selVars, settle, annotations, domVars,
                   toastVars, readyCount>>

\* ---------------------------------------------------------- annotations

\* A local annotation that is given id 0 instead of the temporary id.
LocalAnnotation_IdZero ==
    [id |-> 0, page |-> selectionPage, content |-> selectedText,
     rects |-> selectionRects, color |-> HighlightColor, comment |-> << >>]

\* The annotation createHighlight renders.
LocalAnnotation ==
    [id |-> TempId, page |-> selectionPage, content |-> selectedText,
     rects |-> selectionRects, color |-> HighlightColor, comment |-> << >>]

\* JSON.stringify(annotationData).
AnnotationJson ==
    [page |-> selectionPage, text |-> selectedText, rects |-> selectionRects,
     color |-> HighlightColor, comment |-> << >>]

\* JSON.stringify({id, content, comment}) of an overlay's click handler.
DetailJson(el) == [id |-> el.id, content |-> el.content, comment |-> el.comment]

WithinOverlayBound(ov) == \A p \in Pages : Len(ov[p]) <= MaxOverlays

\* createHighlight()'s early return.
NothingToHighlight == selectedText = << >> \/ selectionRects = << >>

\* createHighlight().
CreateHighlight(l) ==
    IF NothingToHighlight
    THEN /\ Observe(<< >>, << >>, l)
         /\ UNCHANGED <<overlays, toastVars>>
    ELSE /\ overlays' = RenderHighlight(LocalAnnotation, overlays)
         /\ WithinOverlayBound(overlays')
         /\ ShowToast(<<SavedToast>>)
         /\ Observe(IfBridge(pyBridge, "onAnnotationRequest", <<AnnotationJson>>),
                    RenderedElements(LocalAnnotation, pageState), l)

\* A test for the reserved action that misspells its name.
IsHighlight_Misspelt(action) == action = "Highlight"

\* contextAction's test for the reserved action.
IsHighlight(action) == action = "highlight"

\* contextAction(action).
ContextAction(action) ==
    LET l == [op |-> "contextAction", action |-> action, menuWas |-> menuVisible] IN
    /\ HideContextMenu
    /\ IF selectedText = << >>
       THEN /\ Observe(<< >>, << >>, l)
            /\ UNCHANGED <<overlays, toastVars>>
       ELSE IF IsHighlight(action)
            THEN CreateHighlight(l)
            ELSE /\ Observe(IfBridge(pyBridge, "onContextAction", <<action, selectedText>>),
                            << >>, l)
                 /\ UNCHANGED <<overlays, toastVars>>
    /\ UNCHANGED <<envVars, bootVars, selVars, settle, annotations, pageState,
                   layer, readyCount>>

\* window.loadAnnotations(annList), called by the host.
LoadAnnotations(annList) ==
    /\ pyBridge
    /\ annotations' = annList
    /\ overlays' = RenderAll(annList, overlays)
    /\ WithinOverlayBound(overlays')
    /\ Observe(<< >>, RenderedAll(annList), [op |-> "loadAnnotations", list |-> annList])
    /\ UNCHANGED <<envVars, bootVars, selVars, menuVars, settle, pageState,
                   layer, toastVars, readyCount>>

\* A confirmAnnotation that gives the pending overlays the durable id.
ConfirmAnnotation_UpdatesId(realId) ==
    /\ pyBridge
    /\ overlays' = [p \in Pages |->
                      [i \in 1..Len(overlays[p]) |->
                         [overlays[p][i] EXCEPT !.id = IF @ = TempId THEN realId ELSE @]]]
    /\ Observe(<< >>, << >>, [op |-> "confirmAnnotation", id |-> realId])
    /\ UNCHANGED <<envVars, bootVars, selVars, menuVars, settle, annotations,
                   pageState, layer, toastVars, readyCount>>

\* window.confirmAnnotation(realId), called by the host.
ConfirmAnnotation(realId) ==
    /\ pyBridge
    /\ Observe(<< >>, << >>, [op |-> "confirmAnnotation", id |-> realId])
    /\ UNCHANGED <<envVars, bootVars, selVars, menuVars, settle, annotations,
                   domVars, toastVars, readyCount>>

\* A click on the i-th overlay element of page p.
ClickOverlay(p, i) ==
    /\ i \in 1..Len(overlays[p])
    /\ Observe(IfBridge(pyBridge, "onContextAction",
                        <<"show_annotation", DetailJson(overlays[p][i])>>),
               << >>, [op |-> "overlayClick"])
    /\ UNCHANGED <<envVars, bootVars, selVars, menuVars, settle, annotations,
                   domVars, toastVars, readyCount>>

\* ------------------------------------------------ the viewer's page DOM

\* The viewer creates a page's div, then renders its text layer.
PageRender(p) ==
    /\ frameAccess /\ viewerState = "ready"
    /\ pageState[p] # "text"
    /\ pageState' = [pageState EXCEPT ![p] = IF @ = "absent" THEN "div" ELSE "text"]
    /\ Observe(<< >>, << >>, [op |-> "pageRender", page |-> p])
    /\ UNCHANGED <<envVars, bootVars, selVars, menuVars, settle, annotations,
                   layer, overlays, toastVars, readyCount>>

\* The viewer discards a page's text layer (with every child of it).
PageReset(p) ==
    /\ pageState[p] = "text"
    /\ pageState' = [pageState EXCEPT ![p] = "div"]
    /\ overlays' = [overlays EXCEPT ![p] = << >>]
    /\ Observe(<< >>, << >>, [op |-> "pageReset", page |-> p])
    /\ UNCHANGED <<envVars, bootVars, selVars, menuVars, settle, annotations,
                   layer, toastVars, readyCount>>

\* Scrolling or zooming moves a page's text layer.
LayoutChange(p, g) ==
    /\ pageState[p] = "text"
    /\ layer[p] # g
    /\ layer' = [layer EXCEPT ![p] = g]
    /\ Observe(<< >>, << >>, [op |-> "layoutChange", page |-> p])
    /\ UNCHANGED <<envVars, bootVars, selVars, menuVars, settle, annotations,
                   pageState, overlays, toastVars, readyCount>>

\* ------------------------------------------------------ specifications

Boot ==
    \/ InitBridgeStandalone
    \/ InitBridgeWait
    \/ InitBridgeConnect
    \/ TransportInjected
    \/ ChannelCallback
    \/ FrameLoad
    \/ FrameError
    \/ ViewerBoot
    \/ PollTimer

ViewerEvents ==
    \/ \E n \in Pages : PageChanging(n)
    \/ DocumentLoaded
    \/ \E message \in {"", "Invalid PDF"} : DocumentError(message)

Pointer ==
    \/ \E e \in MouseEvents : MouseUp(e)
    \/ \E sel \in Selections : SettleTimer(sel)
    \/ MouseDownFrame
    \/ MouseDownOuter
    \/ \E action \in MenuActions : ContextAction(action)

Host ==
    \/ \E annList \in AnnLists : LoadAnnotations(annList)
    \/ \E realId \in {9} : ConfirmAnnotation(realId)

PageDom ==
    \/ \E p \in Pages : PageRender(p)
    \/ \E p \in Pages : PageReset(p)

Overlay ==
    \E p \in Pages : \E i \in 1..MaxOverlays : ClickOverlay(p, i)

Layout ==
    \E p \in Pages : \E g \in LayerGeoms : LayoutChange(p, g)

\* The program is checked under one environment at a time; the handlers are
\* the same in each.

\* Loading: the channel, the frame, readiness polling and the viewer's events.
NextLoad == Boot \/ ViewerEvents \/ ToastTimer

SpecLoad == Init /\ [][NextLoad]_vars

\* Timers that are due fire: the 100ms poll of setupIframeListeners.
FairLoad == SpecLoad /\ WF_vars(PollTimer)

\* The initBridge timer fires when due and the channel, once opened over the
\* transport, completes its handshake and runs the callback.
FairConnect ==
    SpecLoad /\ WF_vars(InitBridgeConnect) /\ WF_vars(ChannelCallback)

\* Selecting: loading, then pointer events, the menu and local highlights.
NextSelect == Boot \/ Pointer \/ PageDom \/ ToastTimer

SpecSelect == Init /\ [][NextSelect]_vars

\* Annotating: loading, then the host's pushes, overlay clicks and layout.
NextAnnot == Boot \/ Host \/ PageDom \/ Layout \/ Overlay \/ ToastTimer

SpecAnnot == Init /\ [][NextAnnot]_vars

\* Standalone: no channel API, so no host; loading and every event whose
\* handler has a host-call site.
InitStandalone == Init /\ ~channelApi

NextStandalone ==
    \/ InitBridgeStandalone
    \/ FrameLoad
    \/ FrameError
    \/ ViewerBoot
    \/ PollTimer
    \/ \E n \in Pages : PageChanging(n)
    \/ DocumentLoaded
    \/ Pointer
    \/ PageDom
    \/ Overlay
    \/ ToastTimer

SpecStandalone == InitStandalone /\ [][NextStandalone]_vars

\* Selections a highlight can be made from: text of at least 2 characters
\* with client rects, anchored inside a page.
PageSelections ==
    { sel \in Selections :
        /\ Len(SelectionText(sel)) >= 2
        /\ sel.rects # << >>
        /\ GetPageFromSelection(sel) \in Pages }

\* Highlighting in connected mode: selections, local highlights, the host's
\* acknowledgments, overlay clicks and layout changes.
InitConnected ==
    Init /\ channelApi /\ transport /\ frameAccess /\ fileParam = "/home/u/paper.pdf"

NextHighlight ==
    \/ InitBridgeConnect
    \/ ChannelCallback
    \/ FrameLoad
    \/ FrameError
    \/ ViewerBoot
    \/ PollTimer
    \/ \E e \in MouseEvents : MouseUp(e)
    \/ \E sel \in PageSelections : SettleTimer(sel)
    \/ ContextAction("highlight")
    \/ PageDom
    \/ Layout
    \/ \E realId \in {9} : ConfirmAnnotation(realId)
    \/ Overlay
    \/ ToastTimer

SpecHighlight == InitConnected /\ [][NextHighlight]_vars

\* The context menu on its own: showContextMenu at any requested position,
\* for several window and menu sizes.
InitMenu ==
    /\ channelApi = FALSE
    /\ transport = FALSE
    /\ fileParam = NullParam
    /\ frameAccess = TRUE
    /\ viewport \in Viewports
    /\ menuSize \in MenuSizes
    /\ InitProgram

ShowMenuAt(x, y) ==
    /\ ShowContextMenu(x, y)
    /\ Observe(<< >>, << >>, [op |-> "showContextMenu", x |-> x, y |-> y])
    /\ UNCHANGED <<envVars, bootVars, selVars, settle, annotations, domVars,
                   toastVars, readyCount>>

NextMenu ==
    \/ \E x \in Coords : \E y \in Coords : ShowMenuAt(x, y)
    \/ MouseDownOuter

SpecMenu == InitMenu /\ [][NextMenu]_vars

\* getPageFromSelection on its own, for any ancestor chain.
InitPage ==
    /\ channelApi = FALSE
    /\ transport = FALSE
    /\ fileParam = NullParam
    /\ frameAccess = TRUE
    /\ viewport = SessionViewport
    /\ menuSize = SessionMenuSize
    /\ InitProgram

ResolvePage(sel) ==
    /\ selectionPage' = GetPageFromSelection(sel)
    /\ Observe(<< >>, << >>, [op |-> "getPageFromSelection", sel |-> sel])
    /\ UNCHANGED <<envVars, bootVars, selectedText, selectionRects, menuVars,
                   settle, annotations, domVars, toastVars, readyCount>>

NextPage == \E sel \in ChainSelections : ResolvePage(sel)

SpecPage == InitPage /\ [][NextPage]_vars

\* ================================================================ claims

\* C1: over any sequence of viewer events, onViewerReady is
\* invoked exactly once, at the first document-loaded event that is handled
\* in connected mode, and never again on later document-loaded events.
C1_ReadyExactlyOnce ==
    /\ readyCount <= 1
    /\ (last.op = "documentloaded" /\ pyBridge) => readyCount = 1

\* C10: the frame and event bus listeners are installed only when the frame
\* has loaded and the viewer's application object and event bus both exist;
\* while they do not, the retry timer is always armed again and no toast is
\* shown; and with the retry timer firing when due, once the viewer is ready
\* the listeners are eventually installed.
C10_PollUntilViewerReady ==
    /\ [](listeners => (frameState = "loaded" /\ viewerState = "ready" /\ viewerApp))
    /\ []((frameAccess /\ frameState = "loaded" /\ ~listeners)
            => (pollPending /\ toastTimers = 0 /\ ~toastVisible))
    /\ ((frameAccess /\ frameState = "loaded" /\ viewerState = "ready") ~> listeners)

\* C10 witness: the listeners were installed by a retry, after at least one
\* poll found the viewer not ready.
C10_Witness ==
    listeners /\ last.op = "pollTimer" /\ ~pollPending

\* The elements of a sequence of appended overlays that went to page p.
RECURSIVE OnPage(_, _)
OnPage(seq, p) ==
    IF seq = << >> THEN << >>
    ELSE IF Head(seq).page = p
         THEN <<Head(seq).el>> \o OnPage(Tail(seq), p)
         ELSE OnPage(Tail(seq), p)

\* s ends with t.
EndsWith(s, t) ==
    Len(t) <= Len(s) /\ SubSeq(s, Len(s) - Len(t) + 1, Len(s)) = t

\* What the last step appended is at the end of each page's text layer.
AddedIsAppended == \A p \in Pages : EndsWith(overlays[p], OnPage(added, p))

\* The last step created a highlight from a selection with text and rects.
HighlightCreated ==
    /\ last.op = "contextAction" /\ last.action = "highlight"
    /\ selectedText # << >> /\ selectionRects # << >>

\* The last step's only host call is onAnnotationRequest with the selection.
OneAnnotationRequest ==
    /\ Len(calls) = 1
    /\ calls[1].m = "onAnnotationRequest"
    /\ calls[1].args[1].page = selectionPage
    /\ calls[1].args[1].text = selectedText
    /\ calls[1].args[1].rects = selectionRects

\* The last step appended one overlay per rect of the selection, tagged -1.
OneOverlayPerRect ==
    /\ Len(added) = Len(selectionRects)
    /\ \A i \in 1..Len(added) :
         /\ added[i].page = selectionPage
         /\ added[i].el.id = -1
         /\ added[i].el.width = selectionRects[i].w
         /\ added[i].el.height = selectionRects[i].h
         /\ added[i].el.content = selectedText
    /\ AddedIsAppended

\* C2 (as claimed): creating a highlight from a selection with text and at
\* least one rect always makes exactly one onAnnotationRequest call with the
\* selection's page, text and rects and renders one overlay per rect tagged
\* -1, whatever the selection's page.
C2_HighlightAlwaysBoth ==
    HighlightCreated => (OneAnnotationRequest /\ OneOverlayPerRect)

\* C2 (amended): creating a highlight from a selection with text and at least
\* one rect makes exactly one onAnnotationRequest call with the selection's
\* page, text and rects in connected mode and none in standalone mode; it
\* appends one overlay per rect tagged -1 when the selection's page has a div
\* with a text layer, and no overlay otherwise (as for the default page 0).
C2_HighlightRendersOnPresentPage ==
    HighlightCreated =>
        /\ IF pyBridge THEN OneAnnotationRequest ELSE calls = << >>
        /\ IF selectionPage \in Pages /\ pageState[selectionPage] = "text"
           THEN OneOverlayPerRect
           ELSE added = << >>

\* C2 witness: a two-rect highlight rendered on a present page and reported.
C2_Witness ==
    HighlightCreated /\ pyBridge /\ Len(selectionRects) = 2 /\ Len(added) = 2

\* The last step handled a selection whose trimmed text is under 2 characters.
ShortSelectionHandled(l) ==
    l.op = "handleTextSelection" /\ Len(Trim(l.raw)) < 2

\* C3: after a pointer-release whose selection has trimmed length
\* under 2, the selection state is empty (text "" and no rects) and the menu
\* is hidden.
C3_ShortSelectionEmptiesState ==
    ShortSelectionHandled(last) =>
        (selectedText = << >> /\ selectionRects = << >> /\ ~menuVisible)

\* C4: in connected mode, handling a selection whose trimmed text has at
\* least 2 characters makes exactly one host call, onTextSelected with the
\* trimmed text, stores that text and leaves the menu visible.
C4_LongSelectionNotifiesHost ==
    (pyBridge /\ last.op = "handleTextSelection" /\ Len(Trim(last.raw)) >= 2) =>
        /\ Len(calls) = 1
        /\ calls[1].m = "onTextSelected"
        /\ calls[1].args = <<Trim(last.raw)>>
        /\ selectedText = Trim(last.raw)
        /\ menuVisible

\* C4 witness: a selection with leading white space was reported trimmed.
C4_Witness ==
    /\ pyBridge /\ last.op = "handleTextSelection" /\ last.raw = <<" ", "a", "b">>
    /\ Len(calls) = 1 /\ menuVisible

\* C8: contextAction(action) leaves the menu hidden; with no selected text it
\* makes no host call and adds no overlay; for "highlight" it creates the
\* annotation (request, overlays and toast) and never calls onContextAction;
\* for any other action it adds no overlay and, in connected mode, makes
\* exactly one call onContextAction(action, selectedText).
C8_ContextActionDispatch ==
    last.op = "contextAction" =>
        /\ ~menuVisible
        /\ selectedText = << >> => (calls = << >> /\ added = << >>)
        /\ (selectedText # << >> /\ last.action = "highlight") =>
             /\ \A i \in 1..Len(calls) : calls[i].m # "onContextAction"
             /\ selectionRects # << >> =>
                  /\ toastVisible /\ toastText = <<SavedToast>>
                  /\ pyBridge => OneAnnotationRequest
                  /\ AddedIsAppended
        /\ (selectedText # << >> /\ last.action # "highlight") =>
             /\ added = << >>
             /\ pyBridge =>
                  /\ Len(calls) = 1
                  /\ calls[1].m = "onContextAction"
                  /\ calls[1].args = <<last.action, selectedText>>
             /\ ~pyBridge => calls = << >>

\* C8 witness: a menu button other than highlight was forwarded to the host.
C8_Witness ==
    /\ last.op = "contextAction" /\ last.action = "translate" /\ last.menuWas
    /\ pyBridge /\ Len(calls) = 1

\* The last step was showContextMenu for a menu no larger than the window.
MenuShownFitting ==
    /\ last.op = "showContextMenu"
    /\ menuSize.w <= viewport.w /\ menuSize.h <= viewport.h

\* C5: for x, y >= 0 and a menu that fits in the window, after
\* showContextMenu(x, y) the menu's left is in [0, width - menuWidth - 10] and
\* its top in [0, height - menuHeight - 10].
C5_MenuWithinMargin ==
    MenuShownFitting =>
        /\ menuLeft \in 0..(viewport.w - menuSize.w - MenuMargin)
        /\ menuTop \in 0..(viewport.h - menuSize.h - MenuMargin)

\* What one overlay element shows of the annotation and rect it was made for.
Summary(page, el) == [page |-> page, id |-> el.id, w |-> el.width, h |-> el.height]

\* One entry per rect of every annotation of the list whose page has a div
\* with a text layer, in the list's order.
RECURSIVE ExpectedOverlays(_)
ExpectedOverlays(annList) ==
    IF annList = << >> THEN << >>
    ELSE LET ann == Head(annList) IN
         (IF ann.page \in Pages /\ pageState[ann.page] = "text"
          THEN [i \in 1..Len(ann.rects) |->
                  [page |-> ann.page, id |-> ann.id,
                   w |-> ann.rects[i].w, h |-> ann.rects[i].h]]
          ELSE << >>)
         \o ExpectedOverlays(Tail(annList))

\* C6: loadAnnotations(list) replaces the annotations with list and appends
\* one overlay per rect of every annotation of list whose page div and text
\* layer are present, in order; an annotation whose page div or text layer is
\* absent adds nothing and does not stop the annotations after it.
C6_LoadRendersPresentPages ==
    last.op = "loadAnnotations" =>
        /\ annotations = last.list
        /\ [i \in 1..Len(added) |-> Summary(added[i].page, added[i].el)]
             = ExpectedOverlays(last.list)
        /\ AddedIsAppended

\* C6 witness: the first annotation of the list was skipped (its page has no
\* div) and the two rects of the second were rendered.
C6_Witness ==
    /\ last.op = "loadAnnotations" /\ last.list = <<AnnB, AnnA>>
    /\ Len(added) = 2 /\ added[1].el.id = AnnA.id

\* The overlays of page p that were rendered for host annotations.
HostOverlays(p) == SelectSeq(overlays[p], LAMBDA el : el.id # TempId)

RECURSIVE WithPage(_, _)
WithPage(seq, p) ==
    IF seq = << >> THEN << >>
    ELSE IF Head(seq).page = p
         THEN <<Head(seq)>> \o WithPage(Tail(seq), p)
         ELSE WithPage(Tail(seq), p)

\* C7: after loadAnnotations the host overlays on each rendered
\* page are exactly those of the list just loaded, one per rect, with nothing
\* left over from an earlier list and nothing duplicated.
C7_ReloadResyncsOverlays ==
    last.op = "loadAnnotations" =>
        \A p \in Pages :
            pageState[p] = "text" =>
                [i \in 1..Len(HostOverlays(p)) |-> Summary(p, HostOverlays(p)[i])]
                    = WithPage(ExpectedOverlays(annotations), p)

C20_RectsFromSameSelection ==
    (last.op = "handleTextSelection" /\ selectedText # << >>) =>
        /\ selectedText = Trim(last.raw)
        /\ selectionRects = [i \in 1..Len(last.rects) |-> ToRect(last.rects[i])]

\* C11: with the channel API present, while the transport is missing
\* initBridge stays scheduled (it retries without a cap); the viewer load does
\* not start (frame source unset, no toast) before pyBridge is assigned; the
\* frame's load starts at most once and only from the channel callback; and
\* with timers and the channel handshake firing when due, once the transport
\* is injected pyBridge is eventually set and, given a file, the frame's load
\* eventually starts.
C11_ConnectBeforeViewerLoad ==
    /\ []((channelApi /\ ~transport) => (initPending /\ ~channelPending /\ ~pyBridge))
    /\ []((channelApi /\ ~pyBridge)
            => (frameState = "unset" /\ ~toastVisible /\ toastTimers = 0))
    /\ [][(channelApi /\ frameState' = "loading" /\ frameState # "loading")
            => (frameState = "unset" /\ ~pyBridge /\ pyBridge')]_vars
    /\ [][frameState # "unset" => frameState' # "unset"]_vars
    /\ ((channelApi /\ transport) ~> pyBridge)
    /\ ((channelApi /\ transport /\ fileParam # NullParam /\ fileParam # "")
            ~> (frameState # "unset"))

\* C11 witness: the channel callback assigned pyBridge and started the viewer
\* load.
C11_Witness ==
    /\ last.op = "channelCallback" /\ pyBridge /\ frameState = "loading"
    /\ ~initPending /\ ~channelPending

\* C12: when the query string has no file parameter, initViewer shows the
\* "No PDF file specified" toast and nothing else happens for the rest of the
\* session: the frame source stays unset (so no load or error handler can
\* run), the viewer never boots, no readiness poll is scheduled, no listener
\* is installed and no host call is made.
C12_NoFileOnlyToast ==
    fileParam = NullParam =>
        /\ frameState = "unset" /\ viewerState = "none"
        /\ ~pollPending /\ ~listeners /\ ~viewerApp
        /\ calls = << >> /\ readyCount = 0 /\ added = << >>
        /\ (last.op = "channelCallback" \/ (last.op = "initBridge" /\ ~channelApi))
             => (toastVisible /\ toastText = <<NoFileToast>> /\ toastTimers = 1)
        /\ toastText \in {<< >>, <<NoFileToast>>}

\* C12 witness: connected, without a file parameter, the toast is up.
C12_Witness ==
    /\ fileParam = NullParam /\ pyBridge /\ last.op = "channelCallback"
    /\ toastVisible /\ toastText = <<NoFileToast>>

\* A document-error event has been reported in this session: its toast text
\* is the last text the toast was given (no other toast follows it once the
\* listeners are installed).
DocumentErrorReported ==
    toastText # << >> /\ toastText[1] = DocErrorToast

\* C13: once a document-error event has been reported, no later step calls
\* onViewerReady, whatever events follow (later document-loaded events
\* included).
C13_NoReadyAfterDocumentError ==
    DocumentErrorReported => \A i \in 1..Len(calls) : calls[i].m # "onViewerReady"

IsPrefix(s, t) == Len(s) <= Len(t) /\ SubSeq(t, 1, Len(s)) = s

\* C15: a highlight action leaves every overlay already on a page exactly as
\* it was (position, size, tooltip, click payload) and appends its own after
\* them; the overlays it appends carry the text of the selection they were
\* created from as tooltip and click content, with an empty comment; and an
\* overlay click reports the payload of an overlay on the page.
C15_HighlightsAreIndependent ==
    /\ [][last'.op = "contextAction"
            => \A p \in Pages : IsPrefix(overlays[p], overlays'[p])]_vars
    /\ [](HighlightCreated =>
            /\ AddedIsAppended
            /\ \A i \in 1..Len(added) :
                 /\ added[i].el.content = selectedText
                 /\ added[i].el.title = selectedText
                 /\ added[i].el.comment = << >>)
    /\ []((last.op = "overlayClick" /\ pyBridge) =>
            \E p \in Pages : \E i \in 1..Len(overlays[p]) :
                calls[1].args[2] =
                    [id |-> overlays[p][i].id, content |-> overlays[p][i].title,
                     comment |-> << >>])

\* C15 witness: a second highlight, of another selection, was added after the
\* overlay of a first one, which still shows its own text.
C15_Witness ==
    /\ HighlightCreated /\ added # << >>
    /\ \E p \in Pages :
         /\ Len(overlays[p]) > Len(added)
         /\ overlays[p][1].content # selectedText
         /\ overlays[p][1].left # overlays[p][Len(overlays[p])].left

\* The position in the chain of the nearest node carrying the page marker,
\* 0 when there is none.
NearestMarker(chain) ==
    LET marked == { i \in 1..Len(chain) : chain[i].classList /\ chain[i].page }
    IN  IF marked = {} THEN 0
        ELSE CHOOSE i \in marked : \A j \in marked : i <= j

\* The page number each marker attribute stands for, 0 when it is no number
\* (an attribute that begins with digits reads as those digits).
PageNumberOf(attr) ==
    IF attr = <<"1", "2">> THEN 12
    ELSE IF attr = <<"2", "x">> THEN 2
    ELSE 0

RECURSIVE RenderedRects(_)
RenderedRects(annList) ==
    IF annList = << >> THEN << >>
    ELSE LET ann == Head(annList) IN
         (IF ann.page \in Pages /\ pageState[ann.page] = "text"
          THEN [i \in 1..Len(ann.rects) |-> [page |-> ann.page, rect |-> ann.rects[i]]]
          ELSE << >>)
         \o RenderedRects(Tail(annList))

\* C17: every overlay element that loadAnnotations renders for a rect has
\* left = rect.x - textLayerLeft + scrollLeft, top = rect.y - textLayerTop +
\* scrollTop, width = rect.w and height = rect.h, for the layout the page's
\* text layer has when it is rendered.
C17_OverlayGeometry ==
    last.op = "loadAnnotations" =>
        /\ Len(added) = Len(RenderedRects(last.list))
        /\ \A i \in 1..Len(added) :
             LET r == RenderedRects(last.list)[i].rect
                 g == layer[RenderedRects(last.list)[i].page]
             IN  /\ added[i].page = RenderedRects(last.list)[i].page
                 /\ added[i].el.left = r.x - g.left + g.scrollLeft
                 /\ added[i].el.top = r.y - g.top + g.scrollTop
                 /\ added[i].el.width = r.w
                 /\ added[i].el.height = r.h

\* C17 witness: an annotation was rendered on a scrolled text layer whose top
\* is above the window.
C17_Witness ==
    /\ last.op = "loadAnnotations" /\ last.list = <<AnnC>> /\ Len(added) = 1
    /\ layer[1].scrollTop = 3
    /\ added[1].el.left = 4 /\ added[1].el.top = 69

\* C18: showing a toast makes it visible with its message and schedules
\* exactly one hide timer; the message changes only when a toast is shown;
\* every hide timer that fires hides the toast, whatever message it shows
\* and however many later timers are pending; and when no hide timer is
\* pending the toast is hidden.
C18_ToastHiddenByAnyTimer ==
    /\ [][toastTimers' > toastTimers
            => (toastVisible' /\ toastTimers' = toastTimers + 1 /\ toastText' # << >>)]_vars
    /\ [][toastText' # toastText => toastTimers' > toastTimers]_vars
    /\ [][toastTimers' < toastTimers
            => (~toastVisible' /\ toastTimers' = toastTimers - 1)]_vars
    /\ [][(toastVisible' # toastVisible) => (toastTimers' # toastTimers)]_vars
    /\ [](toastTimers = 0 => ~toastVisible)

\* C18 witness: a second toast overwrote the first while its timer was
\* pending, and the first toast's timer has hidden it: the second toast's own
\* timer is still pending.
C18_Witness ==
    /\ last.op = "toastTimer" /\ ~toastVisible /\ toastTimers = 1
    /\ toastText = <<DocErrorToast, "Invalid PDF">>

\* C19: in every reachable state the context menu is visible only if the
\* selected text is non-empty, trimmed and at least 2 characters long; hence
\* a menu action dispatched while the menu was visible finds selected text.
C19_MenuOnlyWithSelection ==
    /\ menuVisible => (Len(selectedText) >= 2 /\ Trim(selectedText) = selectedText)
    /\ (last.op = "contextAction" /\ last.menuWas) => selectedText # << >>

\* C19 witness: the menu is up right after a selection of page 1 with text
\* and two rects was handled.
C19_Witness ==
    /\ menuVisible /\ last.op = "handleTextSelection"
    /\ selectedText = <<"b", " ", "a">> /\ Len(selectionRects) = 2
    /\ selectionPage = 1

====
